---- MODULE Spec2Model ----
(***************************************************************************)
(* Model of scripts/claude-history.py: the loader of history.jsonl, the    *)
(* entry formatter, the single-session resolver, the all-sessions          *)
(* aggregator and the entry point.                                         *)
(*                                                                         *)
(* A JSON value is a record [t, i, s]: t is the Python type of the parsed  *)
(* value ("int", "str", "null"), or "absent" for a key the dict does not   *)
(* hold; i is the value of an int; s the characters of a str, as a tuple   *)
(* of one-character strings.  A parsed entry is a record of the four keys  *)
(* the program reads.  Command-line arguments are tuples of characters     *)
(* too, so that a project path from the log and one from the command line  *)
(* compare as Python strings do.                                           *)
(***************************************************************************)
EXTENDS Integers, Sequences, FiniteSets, TLC

VARIABLES argv, file, tz, pc, entries, target_session, session_entries,
          out, outIdx, err, exitCode, raised, fmtOut

vars == <<argv, file, tz, pc, entries, target_session, session_entries,
          out, outIdx, err, exitCode, raised, fmtOut>>

\* ------------------------------------------------------------- bounds
MaxRawLines == 3
MaxOrderLines == 3
MaxSelectLines == 3
MaxPrintLines == 3
MaxDisplayLen == 3

\* ------------------------------------------------------------- values
IntV(n) == [t |-> "int", i |-> n, s |-> <<>>]
StrV(cs) == [t |-> "str", i |-> 0, s |-> cs]
NullV == [t |-> "null", i |-> 0, s |-> <<>>]
AbsentV == [t |-> "absent", i |-> 0, s |-> <<>>]

NL == "\n"
ARROW == "<U+21B5>"

\* dict.get(key): None for a missing key and for a JSON null alike.
IsNone(v) == v.t \in {"absent", "null"}
\* dict.get(key, default): the default replaces a missing key only.
GetDefault(v, d) == IF v.t = "absent" THEN d ELSE v
\* Python ==  on the values the model holds (None == None is True).
PyEq(a, b) ==
    \/ IsNone(a) /\ IsNone(b)
    \/ a.t = "int" /\ b.t = "int" /\ a.i = b.i
    \/ a.t = "str" /\ b.t = "str" /\ a.s = b.s
\* Python truth value: None, 0 and "" are falsy.
Truthy(v) ==
    \/ v.t = "int" /\ v.i # 0
    \/ v.t = "str" /\ v.s # <<>>
\* a < b raises TypeError unless both are ints or both are strs.
Comparable(a, b) ==
    \/ a.t = "int" /\ b.t = "int"
    \/ a.t = "str" /\ b.t = "str"

\* Code point of the characters the model's strings are made of.
Ord(c) ==
    CASE c = NL -> 10 [] c = " " -> 32 [] c = "+" -> 43 [] c = "-" -> 45
      [] c = "/" -> 47 [] c = "0" -> 48 [] c = "1" -> 49 [] c = "2" -> 50
      [] c = "a" -> 97 [] c = "l" -> 108 [] c = "p" -> 112 [] c = "q" -> 113
      [] c = "s" -> 115 [] c = "x" -> 120 [] OTHER -> 8629

RECURSIVE StrLess(_, _)
StrLess(a, b) ==
    IF b = <<>> THEN FALSE
    ELSE IF a = <<>> THEN TRUE
    ELSE IF Ord(Head(a)) # Ord(Head(b)) THEN Ord(Head(a)) < Ord(Head(b))
    ELSE StrLess(Tail(a), Tail(b))

\* a < b on two comparable values.
KeyLess(a, b) == IF a.t = "int" THEN a.i < b.i ELSE StrLess(a.s, b.s)

\* ------------------------------------------------------------- entries
\* A parsed line: a dict with the four keys the program reads, or any other
\* JSON value (isDict = FALSE), on which .get raises AttributeError.
Dict(ts, d, p, sid) ==
    [isDict |-> TRUE, timestamp |-> ts, display |-> d, project |-> p,
     sessionId |-> sid]
NonDict ==
    [isDict |-> FALSE, timestamp |-> AbsentV, display |-> AbsentV,
     project |-> AbsentV, sessionId |-> AbsentV]

\* A line of history.jsonl: blank after strip(), not JSON, or JSON.
BlankLine == [kind |-> "blank", entry |-> NonDict]
GarbageLine == [kind |-> "garbage", entry |-> NonDict]
JsonLine(e) == [kind |-> "json", entry |-> e]

\* ------------------------------------------------------------- load_entries
\* Faulty variant of ParseLines: a line that does not parse ends the scan
\* (break for continue).
RECURSIVE ParseLinesStopAtBad(_)
ParseLinesStopAtBad(lines) ==
    IF lines = <<>> THEN <<>>
    ELSE IF Head(lines).kind = "blank" THEN ParseLinesStopAtBad(Tail(lines))
    ELSE IF Head(lines).kind = "garbage" THEN <<>>
    ELSE <<Head(lines).entry>> \o ParseLinesStopAtBad(Tail(lines))

RECURSIVE ParseLines(_)
ParseLines(lines) ==
    IF lines = <<>> THEN <<>>
    ELSE LET line == Head(lines)
             rest == ParseLines(Tail(lines))
         IN  IF line.kind = "blank" THEN rest
             ELSE IF line.kind = "garbage" THEN rest
             ELSE <<line.entry>> \o rest

load_entries(f) == IF ~f.exists THEN <<>> ELSE ParseLines(f.lines)

\* ------------------------------------------------------------- format_entry
MsPerMinute == 60000
NoneLine == [isNone |-> TRUE, time_str |-> 0, text |-> <<>>]

\* Faulty variant of Replace: only the first newline is replaced.
ReplaceFirst(s) ==
    IF \E k \in 1..Len(s) : s[k] = NL
    THEN LET k == CHOOSE k \in 1..Len(s) :
                      s[k] = NL /\ \A j \in 1..(k - 1) : s[j] # NL
         IN  SubSeq(s, 1, k - 1) \o <<" ", ARROW, " ">>
                 \o SubSeq(s, k + 1, Len(s))
    ELSE s

\* str.replace("\n", " <arrow> ")
RECURSIVE Replace(_)
Replace(s) ==
    IF s = <<>> THEN <<>>
    ELSE IF Head(s) = NL THEN <<" ", ARROW, " ">> \o Replace(Tail(s))
    ELSE <<Head(s)>> \o Replace(Tail(s))

\* Faulty variant of FormatsToNone: the timestamp is tested for truth
\* (not ts_ms), so 0 counts as missing.
FormatsToNoneFalsyTimestamp(entry) ==
    \/ ~Truthy(entry.timestamp)
    \/ ~Truthy(GetDefault(entry.display, StrV(<<>>)))

\* The early return of format_entry.
FormatsToNone(entry) == IsNone(entry.timestamp)
                        \/ ~Truthy(GetDefault(entry.display, StrV(<<>>)))

\* ts_ms / 1000.0 on a str and display.replace on an int raise.
FormatRaises(entry) ==
    /\ ~FormatsToNone(entry)
    /\ (entry.timestamp.t # "int" \/ entry.display.t # "str")

\* The minute of the local wall clock, which strftime("%Y-%m-%d %H:%M")
\* writes: the timestamp floored to the minute, shifted by the zone offset.
TimeStr(ts_ms, offset) == (ts_ms \div MsPerMinute) + offset

\* The line "[time_str] display" as its two parts; None as NoneLine.
format_entry(entry, offset) ==
    IF FormatsToNone(entry) THEN NoneLine
    ELSE [isNone |-> FALSE,
          time_str |-> TimeStr(entry.timestamp.i, offset),
          text |-> Replace(entry.display.s)]

\* ------------------------------------------------------------- sorting
\* key=lambda e: e.get("timestamp", 0)
SortKey(es, i) == GetDefault(es[i].timestamp, IntV(0))

\* list.sort and min raise TypeError when two of the keys cannot be ordered.
KeysRaise(keys) ==
    \E i, j \in 1..Len(keys) : i < j /\ ~Comparable(keys[i], keys[j])

\* Insert index x after every index whose key is not greater (stable).
RECURSIVE InsertByKey(_, _, _)
InsertByKey(es, sorted, x) ==
    IF sorted = <<>> THEN <<x>>
    ELSE IF KeyLess(SortKey(es, x), SortKey(es, Head(sorted)))
         THEN <<x>> \o sorted
         ELSE <<Head(sorted)>> \o InsertByKey(es, Tail(sorted), x)

\* Faulty variant of SortByTimestamp: the list is left in file order.
NoSort(es, idxs) == idxs

\* list.sort(key=...) on a list of entries, held as indices into es.
RECURSIVE SortByTimestamp(_, _)
SortByTimestamp(es, idxs) ==
    IF idxs = <<>> THEN <<>>
    ELSE InsertByKey(es, SortByTimestamp(es, SubSeq(idxs, 1, Len(idxs) - 1)),
                     idxs[Len(idxs)])

KeysOf(es, idxs) == [k \in 1..Len(idxs) |-> SortKey(es, idxs[k])]

\* ------------------------------------------------------------- printing
\* for entry in session_entries: line = format_entry(entry); if line: print
\* The loop stops at the first entry on which format_entry raises; what was
\* printed before stays printed.
RECURSIVE PrintLoop(_, _, _)
PrintLoop(es, idxs, offset) ==
    IF idxs = <<>> THEN [raised |-> FALSE, idx |-> <<>>, lines |-> <<>>]
    ELSE IF FormatRaises(es[Head(idxs)])
         THEN [raised |-> TRUE, idx |-> <<>>, lines |-> <<>>]
    ELSE LET line == format_entry(es[Head(idxs)], offset)
             rest == PrintLoop(es, Tail(idxs), offset)
         IN  IF line.isNone THEN rest
             ELSE [raised |-> rest.raised,
                   idx |-> <<Head(idxs)>> \o rest.idx,
                   lines |-> <<line>> \o rest.lines]

AllDicts(es) == \A i \in 1..Len(es) : es[i].isDict

\* The indices i..Len(keep) at which keep holds, in list order: the entries
\* a list comprehension keeps.
RECURSIVE Filter(_, _)
Filter(keep, i) ==
    IF i > Len(keep) THEN <<>>
    ELSE IF keep[i] THEN <<i>> \o Filter(keep, i + 1)
    ELSE Filter(keep, i + 1)

\* ------------------------------------------------------------- single_session_mode
\* if ts is not None and ts >= start_ts_ms and proj == project_path
Matches(entry, start_ts_ms, project_path) ==
    /\ ~IsNone(entry.timestamp)
    /\ entry.timestamp.i >= start_ts_ms
    /\ PyEq(GetDefault(entry.project, StrV(<<>>)), StrV(project_path))

\* Faulty variant of Scan: the scan does not stop at the first match (no
\* break), so the last match decides.
RECURSIVE ScanLast(_, _, _, _)
ScanLast(es, i, start_ts_ms, project_path) ==
    IF i > Len(es) THEN [raised |-> FALSE, found |-> FALSE, at |-> 0]
    ELSE IF ~es[i].isDict \/ es[i].timestamp.t = "str"
         THEN [raised |-> TRUE, found |-> FALSE, at |-> 0]
    ELSE LET rest == ScanLast(es, i + 1, start_ts_ms, project_path)
         IN  IF rest.raised \/ rest.found THEN rest
             ELSE IF Matches(es[i], start_ts_ms, project_path)
                  THEN [raised |-> FALSE, found |-> TRUE, at |-> i]
             ELSE rest

\* The scan for the target session from entry i on.  entry.get raises on a
\* value that is no dict, and ts >= start_ts_ms raises on a str.
RECURSIVE Scan(_, _, _, _)
Scan(es, i, start_ts_ms, project_path) ==
    IF i > Len(es) THEN [raised |-> FALSE, found |-> FALSE, at |-> 0]
    ELSE IF ~es[i].isDict \/ es[i].timestamp.t = "str"
         THEN [raised |-> TRUE, found |-> FALSE, at |-> 0]
    ELSE IF Matches(es[i], start_ts_ms, project_path)
         THEN [raised |-> FALSE, found |-> TRUE, at |-> i]
    ELSE Scan(es, i + 1, start_ts_ms, project_path)

NoRun == [raised |-> FALSE, target |-> AbsentV, selected |-> <<>>,
          idx |-> <<>>, lines |-> <<>>]

single_session_mode(start_ts_ms, project_path, es, offset) ==
    LET scan == Scan(es, 1, start_ts_ms, project_path)
        target == IF scan.found THEN es[scan.at].sessionId ELSE AbsentV
        unsorted == Filter([i \in 1..Len(es) |->
                               PyEq(es[i].sessionId, target)], 1)
        sorted == SortByTimestamp(es, unsorted)
        printed == PrintLoop(es, sorted, offset)
    IN  IF scan.raised THEN [NoRun EXCEPT !.raised = TRUE]
        ELSE IF IsNone(target) THEN [NoRun EXCEPT !.target = target]
        ELSE IF ~AllDicts(es) \/ KeysRaise(KeysOf(es, unsorted))
             THEN [NoRun EXCEPT !.raised = TRUE, !.target = target]
        ELSE [raised |-> printed.raised, target |-> target,
              selected |-> sorted, idx |-> printed.idx,
              lines |-> printed.lines]

\* ------------------------------------------------------------- all_sessions_mode
\* sid = entry.get("sessionId", "")
Sid(entry) == GetDefault(entry.sessionId, StrV(<<>>))

\* The keys of the dict sessions, in the order the loop first meets them.
RECURSIVE SessionIds(_, _, _)
SessionIds(es, idxs, seen) ==
    IF idxs = <<>> THEN seen
    ELSE LET sid == Sid(es[Head(idxs)])
         IN  IF \E k \in 1..Len(seen) : PyEq(seen[k], sid)
             THEN SessionIds(es, Tail(idxs), seen)
             ELSE SessionIds(es, Tail(idxs), Append(seen, sid))

\* min(e.get("timestamp", 0) for e in group), the first minimum met.
RECURSIVE MinFrom(_, _, _)
MinFrom(es, idxs, m) ==
    IF idxs = <<>> THEN m
    ELSE IF KeyLess(SortKey(es, Head(idxs)), m)
         THEN MinFrom(es, Tail(idxs), SortKey(es, Head(idxs)))
         ELSE MinFrom(es, Tail(idxs), m)
MinKey(es, group) == MinFrom(es, Tail(group), SortKey(es, Head(group)))

\* sorted(sessions.items(), key=min...): stable, ascending.
RECURSIVE InsertSession(_, _, _)
InsertSession(es, sorted, g) ==
    IF sorted = <<>> THEN <<g>>
    ELSE IF KeyLess(MinKey(es, g), MinKey(es, Head(sorted)))
         THEN <<g>> \o sorted
         ELSE <<Head(sorted)>> \o InsertSession(es, Tail(sorted), g)
\* Faulty variant of SortSessions: the sessions stay in the order the
\* grouping met them.
KeepSessionOrder(es, groups) == groups

RECURSIVE SortSessions(_, _)
SortSessions(es, groups) ==
    IF groups = <<>> THEN <<>>
    ELSE InsertSession(es, SortSessions(es, SubSeq(groups, 1, Len(groups) - 1)),
                       groups[Len(groups)])

RECURSIVE Flatten(_)
Flatten(groups) ==
    IF groups = <<>> THEN <<>> ELSE Head(groups) \o Flatten(Tail(groups))

\* Faulty variant of InProject: a missing project is None, not "" (get
\* without the default).
InProjectNoDefault(entry, project_path) ==
    PyEq(entry.project, StrV(project_path))

InProject(entry, project_path) ==
    PyEq(GetDefault(entry.project, StrV(<<>>)), StrV(project_path))

all_sessions_mode(project_path, es, offset) ==
    LET project_entries ==
            Filter([i \in 1..Len(es) |-> InProject(es[i], project_path)], 1)
        sids == SessionIds(es, project_entries, <<>>)
        sessions ==
            [k \in 1..Len(sids) |->
                Filter([i \in 1..Len(es) |->
                           /\ InProject(es[i], project_path)
                           /\ PyEq(Sid(es[i]), sids[k])], 1)]
        groupRaises ==
            \E k \in 1..Len(sids) : KeysRaise(KeysOf(es, sessions[k]))
        sortedGroups ==
            [k \in 1..Len(sids) |-> SortByTimestamp(es, sessions[k])]
        minKeys == [k \in 1..Len(sids) |-> MinKey(es, sortedGroups[k])]
        sorted_sessions == SortSessions(es, sortedGroups)
        printed == PrintLoop(es, Flatten(sorted_sessions), offset)
    IN  IF ~AllDicts(es) THEN [NoRun EXCEPT !.raised = TRUE]
        ELSE IF project_entries = <<>> THEN NoRun
        ELSE IF groupRaises \/ KeysRaise(minKeys)
             THEN [NoRun EXCEPT !.raised = TRUE]
        ELSE [raised |-> printed.raised, target |-> AbsentV,
              selected |-> Flatten(sorted_sessions), idx |-> printed.idx,
              lines |-> printed.lines]

\* ------------------------------------------------------------- main
PROG == <<"p">>
ALL == <<"-", "-", "a", "l", "l">>

Digits == {"0", "1", "2"}
Unsigned(cs) == IF cs # <<>> /\ Head(cs) \in {"+", "-"} THEN Tail(cs) ELSE cs
\* Whether int(s) returns: an optional sign and at least one digit.
IsIntLiteral(cs) ==
    /\ Unsigned(cs) # <<>>
    /\ \A k \in 1..Len(Unsigned(cs)) : Unsigned(cs)[k] \in Digits
RECURSIVE DigitsValue(_, _)
DigitsValue(cs, acc) ==
    IF cs = <<>> THEN acc
    ELSE DigitsValue(Tail(cs), 10 * acc + (Ord(Head(cs)) - 48))
\* int(s)
ParseInt(cs) ==
    IF Head(cs) = "-" THEN 0 - DigitsValue(Unsigned(cs), 0)
    ELSE DigitsValue(Unsigned(cs), 0)

\* sys.argv[k]
Arg(k) == argv[k + 1]

Exit(code, message) ==
    /\ pc' = "exit"
    /\ exitCode' = code
    /\ err' = message

\* if len(sys.argv) < 2: usage, sys.exit(1)
Usage ==
    /\ pc = "main"
    /\ Len(argv) < 2
    /\ Exit(1, "usage")
    /\ UNCHANGED <<argv, file, tz, entries, target_session, session_entries,
                   out, outIdx, raised, fmtOut>>

\* entries = load_entries()
LoadEntries ==
    /\ pc = "main"
    /\ Len(argv) >= 2
    /\ entries' = load_entries(file)
    /\ pc' = "dispatch"
    /\ UNCHANGED <<argv, file, tz, target_session, session_entries,
                   out, outIdx, err, exitCode, raised, fmtOut>>

\* --all without a project path
AllMissingPath ==
    /\ pc = "dispatch"
    /\ Arg(1) = ALL
    /\ Len(argv) < 3
    /\ Exit(1, "all_requires_project_path")
    /\ UNCHANGED <<argv, file, tz, entries, target_session, session_entries,
                   out, outIdx, raised, fmtOut>>

\* single-session mode without a project path
SingleMissingPath ==
    /\ pc = "dispatch"
    /\ Arg(1) # ALL
    /\ Len(argv) < 3
    /\ Exit(1, "single_requires_arguments")
    /\ UNCHANGED <<argv, file, tz, entries, target_session, session_entries,
                   out, outIdx, raised, fmtOut>>

\* int(sys.argv[1]) raises ValueError
SingleBadInt ==
    /\ pc = "dispatch"
    /\ Arg(1) # ALL
    /\ Len(argv) >= 3
    /\ ~IsIntLiteral(Arg(1))
    /\ Exit(1, "must_be_integer")
    /\ UNCHANGED <<argv, file, tz, entries, target_session, session_entries,
                   out, outIdx, raised, fmtOut>>

\* The end of a mode's run: what it printed, and exit code 0, or the
\* traceback and exit code 1 of an exception nothing catches.
Finish(run) ==
    /\ target_session' = run.target
    /\ session_entries' = run.selected
    /\ out' = run.lines
    /\ outIdx' = run.idx
    /\ raised' = run.raised
    /\ IF run.raised THEN Exit(1, "traceback") ELSE Exit(0, "")
    /\ UNCHANGED <<argv, file, tz, entries, fmtOut>>

RunAll ==
    /\ pc = "dispatch"
    /\ Arg(1) = ALL
    /\ Len(argv) >= 3
    /\ Finish(all_sessions_mode(Arg(2), entries, tz))

RunSingle ==
    /\ pc = "dispatch"
    /\ Arg(1) # ALL
    /\ Len(argv) >= 3
    /\ IsIntLiteral(Arg(1))
    /\ Finish(single_session_mode(ParseInt(Arg(1)), Arg(2), entries, tz))

\* format_entry applied to one entry on its own.
FormatEntry ==
    /\ pc = "format"
    /\ fmtOut' = format_entry(entries[1], tz)
    /\ pc' = "formatted"
    /\ UNCHANGED <<argv, file, tz, entries, target_session, session_entries,
                   out, outIdx, err, exitCode, raised>>

Next ==
    \/ Usage
    \/ LoadEntries
    \/ AllMissingPath
    \/ SingleMissingPath
    \/ SingleBadInt
    \/ RunAll
    \/ RunSingle

NextFormat == FormatEntry

\* ------------------------------------------------------------- inputs
P == <<"/", "p">>
Q == <<"/", "q">>
S1 == <<"s", "1">>
S2 == <<"s", "2">>
X == <<"x">>
ONE == <<"1">>

SeqsUpTo(S, n) == UNION {[1..k -> S] : k \in 0..n}

MissingFile == [exists |-> FALSE, lines |-> <<>>]
FileOf(lines) == [exists |-> TRUE, lines |-> lines]
JsonFile(es) == FileOf([k \in 1..Len(es) |-> JsonLine(es[k])])

InvalidArgvs ==
    {<<PROG>>, <<PROG, ALL>>, <<PROG, ONE>>, <<PROG, X>>, <<PROG, X, P>>,
     <<PROG, <<>>, P>>, <<PROG, <<"-">>, P>>, <<PROG, <<"1", "x">>, P>>}

Start(args, f) ==
    /\ argv = args
    /\ file = f
    /\ tz = 0
    /\ pc = "main"
    /\ entries = <<>>
    /\ target_session = AbsentV
    /\ session_entries = <<>>
    /\ out = <<>>
    /\ outIdx = <<>>
    /\ err = ""
    /\ exitCode = 0
    /\ raised = FALSE
    /\ fmtOut = NoneLine

\* Any content of the log: blank lines, lines that are no JSON, JSON that is
\* no object, objects with fields of any type.
RawDicts ==
    {Dict(ts, d, StrV(P), StrV(S1)) :
        ts \in {AbsentV, NullV, IntV(1), StrV(ONE)},
        d \in {StrV(X), IntV(1)}}
RawLines == {BlankLine, GarbageLine, JsonLine(NonDict)}
                \cup {JsonLine(e) : e \in RawDicts}
RawArgvs ==
    InvalidArgvs \cup {<<PROG, ALL, P>>, <<PROG, ONE, P>>,
                       <<PROG, <<"-", "1">>, P>>, <<PROG, ALL, P, X>>}

Init ==
    \E args \in RawArgvs :
    \E f \in {MissingFile} \cup {FileOf(ls) : ls \in SeqsUpTo(RawLines, MaxRawLines)} :
        Start(args, f)

Spec == Init /\ [][Next]_vars

\* Well-formed logs: every line an object whose fields, when present, have
\* the types the program expects.
Dicts(TS, DS, PS, SS) ==
    {Dict(ts, d, p, sid) : ts \in TS, d \in DS, p \in PS, sid \in SS}
JsonFiles(D, n) == {JsonFile(es) : es \in SeqsUpTo(D, n)}

\* Sessions of two projects with timestamps in and out of file order.
OrderDicts ==
    Dicts({AbsentV, IntV(0), IntV(1), IntV(2)}, {StrV(X)},
          {StrV(P), StrV(Q)}, {StrV(S1), StrV(S2)})
InitOrder ==
    \/ \E args \in InvalidArgvs : Start(args, MissingFile)
    \/ \E args \in {<<PROG, ALL, P>>, <<PROG, ONE, P>>} :
       \E f \in JsonFiles(OrderDicts, MaxOrderLines) : Start(args, f)
SpecOrder == InitOrder /\ [][Next]_vars

\* Entries with and without each of project and sessionId.
SelectDicts ==
    Dicts({AbsentV, IntV(0), IntV(1)}, {StrV(X)},
          {AbsentV, StrV(P)}, {AbsentV, StrV(S1), StrV(S2)})
InitSelect ==
    \/ \E args \in InvalidArgvs : Start(args, MissingFile)
    \/ \E args \in {<<PROG, ALL, P>>, <<PROG, ALL, <<>>>>,
                    <<PROG, ONE, P>>, <<PROG, ONE, <<>>>>} :
       \E f \in JsonFiles(SelectDicts, MaxSelectLines) : Start(args, f)
SpecSelect == InitSelect /\ [][Next]_vars

\* Entries with a missing, an empty and a non-empty display.
PrintDicts ==
    Dicts({AbsentV, IntV(0), IntV(1)}, {AbsentV, StrV(<<>>), StrV(X)},
          {StrV(P)}, {StrV(S1), StrV(S2)})
InitPrint ==
    \/ \E args \in InvalidArgvs : Start(args, MissingFile)
    \/ \E args \in {<<PROG, ALL, P>>, <<PROG, <<"0">>, P>>} :
       \E f \in JsonFiles(PrintDicts, MaxPrintLines) : Start(args, f)
SpecPrint == InitPrint /\ [][Next]_vars

\* One entry handed to format_entry, under several zone offsets.
TzOffsets == {0 - 60, 0, 540}
FormatChars == {"a", " ", NL, ARROW}
FormatDicts ==
    Dicts({AbsentV, IntV(0 - 1), IntV(0), IntV(59999), IntV(60000)},
          {AbsentV} \cup {StrV(cs) : cs \in SeqsUpTo(FormatChars, MaxDisplayLen)},
          {AbsentV}, {AbsentV})
InitFormat ==
    \E e \in FormatDicts : \E offset \in TzOffsets :
        /\ argv = <<PROG>>
        /\ file = MissingFile
        /\ tz = offset
        /\ pc = "format"
        /\ entries = <<e>>
        /\ target_session = AbsentV
        /\ session_entries = <<>>
        /\ out = <<>>
        /\ outIdx = <<>>
        /\ err = ""
        /\ exitCode = 0
        /\ raised = FALSE
        /\ fmtOut = NoneLine
SpecFormat == InitFormat /\ [][NextFormat]_vars

\* ------------------------------------------------------------- properties
Range(f) == {f[k] : k \in DOMAIN f}
Injective(f) == \A a, b \in DOMAIN f : f[a] = f[b] => a = b

\* The invocations the entry point rejects: no argument, a first argument
\* without a second, a first argument that is neither --all nor an integer.
InvalidInvocation ==
    \/ Len(argv) < 3
    \/ (argv[2] # ALL /\ ~IsIntLiteral(argv[2]))

SingleRan == pc = "exit" /\ ~InvalidInvocation /\ argv[2] # ALL
AllRan == pc = "exit" /\ ~InvalidInvocation /\ argv[2] = ALL

\* An entry has a timestamp; an entry has a display that is not empty.
HasTimestamp(e) == e.timestamp.t = "int"
HasDisplay(e) == e.display.t = "str" /\ Len(e.display.s) > 0
\* The project and the session of an entry as strings, "" when missing.
ProjectOf(e) == IF e.project.t = "str" THEN e.project.s ELSE <<>>
TimestampOr0(e) == IF HasTimestamp(e) THEN e.timestamp.i ELSE 0

\* C1: main exits with code 1, with a message on the error stream and
\* nothing on standard output, exactly when the invocation is invalid; every
\* other invocation ends with exit code 0.
C1_ExitCodeIffInvalid ==
    pc = "exit" =>
        /\ exitCode \in {0, 1}
        /\ (exitCode = 1) <=> InvalidInvocation
        /\ exitCode = 1 => (err # "" /\ out = <<>>)

\* C2: with a valid invocation no content of the log makes the run fail:
\* the mode runs to completion without raising.
C2_NoLogContentRaises ==
    (pc = "exit" /\ ~InvalidInvocation) => (~raised /\ exitCode = 0)

ParsedLineNos ==
    IF file.exists
    THEN {i \in 1..Len(file.lines) : file.lines[i].kind = "json"}
    ELSE {}
NthParsed(k) ==
    CHOOSE i \in ParsedLineNos :
        Cardinality({j \in ParsedLineNos : j <= i}) = k
\* C7: load_entries returns the parsed values of exactly the non-blank lines
\* that parse, in file order, each once; a missing file yields no entry.
C7_LoadKeepsParsedLinesInOrder ==
    pc \in {"dispatch", "exit"} /\ Len(argv) >= 2 =>
        /\ Len(entries) = Cardinality(ParsedLineNos)
        /\ \A k \in 1..Len(entries) : entries[k] = file.lines[NthParsed(k)].entry
C7_Witness ==
    /\ pc = "dispatch"
    /\ Len(file.lines) = 3
    /\ file.lines[1].kind = "json"
    /\ file.lines[2].kind = "garbage"
    /\ file.lines[3].kind = "json"
    /\ file.lines[1] # file.lines[3]
    /\ entries = <<file.lines[1].entry, file.lines[3].entry>>

Qualifies(e) ==
    /\ HasTimestamp(e)
    /\ e.timestamp.i >= ParseInt(argv[2])
    /\ ProjectOf(e) = argv[3]
Qualifying == {i \in 1..Len(entries) : Qualifies(entries[i])}
FirstQualifying == CHOOSE i \in Qualifying : \A j \in Qualifying : i <= j
\* C3: in single-session mode the target session is the sessionId of the
\* first entry, in file order, whose timestamp is present and >= the start
\* timestamp and whose project equals the path; when no entry qualifies
\* nothing is printed.
C3_TargetIsFirstMatch ==
    SingleRan =>
        IF Qualifying = {}
        THEN IsNone(target_session) /\ out = <<>>
        ELSE target_session = entries[FirstQualifying].sessionId
C3_Witness ==
    /\ SingleRan
    /\ Cardinality(Qualifying) >= 2
    /\ \E j \in Qualifying :
          /\ entries[j].sessionId.t = "str"
          /\ entries[j].sessionId # entries[FirstQualifying].sessionId
    /\ target_session = StrV(S2)
    /\ out # <<>>

SessionOfMatch ==
    {i \in 1..Len(entries) :
        entries[i].sessionId = entries[FirstQualifying].sessionId}
Printable(S) == {i \in S : HasTimestamp(entries[i]) /\ HasDisplay(entries[i])}
\* C4: in single-session mode, whenever some entry qualifies, the printed
\* lines are exactly the lines of the entries that carry the sessionId of
\* the first qualifying entry and have a timestamp and a non-empty display,
\* each once, whatever their project and timestamp.
C4_PrintsWholeSession ==
    (SingleRan /\ Qualifying # {}) =>
        /\ Range(outIdx) = Printable(SessionOfMatch)
        /\ Injective(outIdx)

OfProject == {i \in 1..Len(entries) : ProjectOf(entries[i]) = argv[3]}
\* C10: in all-sessions mode the printed lines are exactly the lines of the
\* entries whose project equals the path (a missing project counting as "")
\* and that have a timestamp and a non-empty display, each once.
C10_PrintsExactlyTheProject ==
    AllRan =>
        /\ Range(outIdx) = Printable(OfProject)
        /\ Injective(outIdx)
        /\ Len(out) = Len(outIdx)
C10_Witness ==
    /\ AllRan
    /\ Len(entries) >= 2
    /\ Len(out) = 1
    /\ \E i \in 1..Len(entries) :
          /\ i \notin OfProject
          /\ HasTimestamp(entries[i]) /\ HasDisplay(entries[i])
          /\ entries[i].sessionId = entries[outIdx[1]].sessionId
          /\ entries[i].sessionId.t = "str"

SameSession(i, j) == entries[i].sessionId = entries[j].sessionId
\* C5: in both modes the lines printed for one session appear in
\* non-decreasing order of their entries' timestamps.
C5_SessionLinesInTimeOrder ==
    pc = "exit" =>
        \A a, b \in 1..Len(outIdx) :
            (a < b /\ SameSession(outIdx[a], outIdx[b])) =>
                entries[outIdx[a]].timestamp.i <= entries[outIdx[b]].timestamp.i
C5_Witness ==
    /\ pc = "exit"
    /\ Len(outIdx) >= 2
    /\ \E a, b \in 1..Len(outIdx) :
          /\ a < b
          /\ outIdx[a] > outIdx[b]
          /\ SameSession(outIdx[a], outIdx[b])
          /\ entries[outIdx[a]].timestamp.i < entries[outIdx[b]].timestamp.i

SessionMembers(i) == {j \in OfProject : SameSession(i, j)}
MinTimestamp(i) ==
    CHOOSE m \in {TimestampOr0(entries[j]) : j \in SessionMembers(i)} :
        \A j \in SessionMembers(i) : m <= TimestampOr0(entries[j])
\* C6: in all-sessions mode, for two sessions A and B of the project whose
\* minimum timestamps (a missing timestamp counting as 0) satisfy tA < tB,
\* every line printed for A comes before every line printed for B.
C6_SessionsInBlocksOldestFirst ==
    AllRan =>
        \A a, b \in 1..Len(outIdx) :
            MinTimestamp(outIdx[a]) < MinTimestamp(outIdx[b]) => a < b
C6_Witness ==
    /\ AllRan
    /\ Len(entries) = 3
    /\ outIdx = <<3, 1, 2>>
    /\ SameSession(1, 3) /\ ~SameSession(1, 2)
    /\ entries[1].timestamp.i > entries[2].timestamp.i

\* C8: format_entry produces nothing exactly when the timestamp is absent or
\* the display is absent or empty (a timestamp of 0 produces a line), so a
\* selected entry is printed if and only if it has a timestamp and a
\* non-empty display.
C8_LineIffTimestampAndDisplay ==
    /\ \A i \in 1..Len(entries) :
          format_entry(entries[i], tz).isNone
              <=> ~(HasTimestamp(entries[i]) /\ HasDisplay(entries[i]))
    /\ pc = "exit" =>
          /\ Range(outIdx) = Printable(Range(session_entries))
          /\ Len(out) = Len(outIdx)
C8_Witness ==
    /\ pc = "exit"
    /\ Len(session_entries) = 3
    /\ Len(out) = 1
    /\ entries[outIdx[1]].timestamp = IntV(0)
    /\ \E i \in Range(session_entries) :
          HasTimestamp(entries[i]) /\ entries[i].display = StrV(<<>>)
    /\ \E i \in Range(session_entries) :
          ~HasTimestamp(entries[i]) /\ HasDisplay(entries[i])

NewlinesBefore(cs, k) == Cardinality({j \in 1..(k - 1) : cs[j] = NL})
\* Where character k of the display lands in the text.
Landing(cs, k) == k + 2 * NewlinesBefore(cs, k)
\* C9: for an entry with a timestamp and a non-empty display the text of the
\* line is the display with each newline replaced by space, arrow, space and
\* every other character unchanged in place; the line holds no raw newline.
C9_NewlinesReplacedRestUnchanged ==
    (pc = "formatted" /\ HasTimestamp(entries[1]) /\ HasDisplay(entries[1])) =>
        LET d == entries[1].display.s
            text == fmtOut.text
        IN  /\ ~fmtOut.isNone
            /\ Len(text) = Len(d) + 2 * NewlinesBefore(d, Len(d) + 1)
            /\ \A k \in 1..Len(d) :
                  IF d[k] = NL
                  THEN /\ text[Landing(d, k)] = " "
                       /\ text[Landing(d, k) + 1] = ARROW
                       /\ text[Landing(d, k) + 2] = " "
                  ELSE text[Landing(d, k)] = d[k]
            /\ \A k \in 1..Len(text) : text[k] # NL
C9_Witness ==
    /\ pc = "formatted"
    /\ entries[1].timestamp = IntV(60000)
    /\ entries[1].display = StrV(<<NL, "a", NL>>)
    /\ fmtOut.text = <<" ", ARROW, " ", "a", " ", ARROW, " ">>
    /\ fmtOut.time_str = 1 + tz

====
